---- MODULE Spec2Model ----
(***************************************************************************)
(* Model of the LangGraph support-chatbot notebooks                        *)
(* (src/langgraph/01. Building_a_support_chatbot.ipynb).                   *)
(*                                                                         *)
(* Three graphs are built in the source:                                   *)
(*   "basic" : START -> chatbot -> END, driven by a chat read-loop;        *)
(*   "tools" : chatbot <-> tools with route_tools and BasicToolNode,       *)
(*             driven by a chat read-loop;                                 *)
(*   "hitl"  : the same wiring compiled with a checkpointer and            *)
(*             interrupt_before = ["tools"], streamed once and resumed     *)
(*             with None.                                                  *)
(* Python values: a list is a sequence, a dict a record, a str that the    *)
(* code inspects character by character is a sequence of one-letter        *)
(* strings, and an object has the attribute a exactly when a is in its     *)
(* DOMAIN.                                                                 *)
(***************************************************************************)
EXTENDS Integers, Sequences, FiniteSets, TLC

(* ---------------------------- bounds ----------------------------------- *)
\* chatbot steps the model lets one graph run take
MaxRounds == 2
\* tool calls the model lets one assistant reply hold
MaxCalls == 2
\* graph invocations the model lets the chat read-loop make
MaxInputs == 2
\* messages in the inputs handed to route_tools on its own
MaxListLen == 2
\* times the model lets the user resume the interrupted thread with None
MaxResumes == 1

(* ---------------------------- data ------------------------------------- *)
Parts == {"basic", "tools", "hitl"}

\* what the user may type at input()
QuitInputs ==
  { <<"q">>, <<"Q">>, <<"q","u","i","t">>, <<"Q","u","I","T">>, <<"E","x","i","t">> }
OtherInputs == { <<"h","i">>, <<"q","u","i","t","s">> }
UserInputs == QuitInputs \cup OtherInputs

\* the user_input of the human-in-the-loop notebook
HitlInput == <<"h","i">>

\* the tool registered in tools = [tool], and a name the model may hallucinate
RegisteredTool == "tavily_search_results_json"
ToolNames == {RegisteredTool, "other_tool"}
ToolArgs == {"LangGraph"}
\* what the search tool may return: a list of {url, content} dicts
ToolResults == { <<>>, <<[url |-> "u1", content |-> "c1"]>> }
\* a tool invocation returns a result or raises
ToolOutcomes ==
  { [raises |-> FALSE, value |-> r] : r \in ToolResults }
    \cup { [raises |-> TRUE, value |-> <<>>] }
AIContents == { <<"answer">> }

RECURSIVE SeqsUpTo(_, _)
SeqsUpTo(S, n) ==
  IF n = 0 THEN { <<>> }
  ELSE LET shorter == SeqsUpTo(S, n - 1)
       IN  shorter \cup { Append(s, x) : s \in { t \in shorter : Len(t) = n - 1 }, x \in S }

Last(s) == s[Len(s)]
IsPrefix(s, t) == Len(s) <= Len(t) /\ SubSeq(t, 1, Len(s)) = s
HasAttr(obj, a) == a \in DOMAIN obj

(* ---------------------------- str.lower -------------------------------- *)
LowerMap ==
  [Q |-> "q", U |-> "u", I |-> "i", T |-> "t", E |-> "e", X |-> "x", H |-> "h", S |-> "s"]
LowerChar(c) == IF c \in DOMAIN LowerMap THEN LowerMap[c] ELSE c
\* the input is compared as typed
lower_as_typed(s) == s
lower(s) == [i \in 1..Len(s) |-> LowerChar(s[i])]

QuitWords == { <<"q","u","i","t">>, <<"e","x","i","t">>, <<"q">> }
IsQuit(user_input) == lower(user_input) \in QuitWords

(* ---------------------------- json.dumps ------------------------------- *)
Quote(s) == <<"\"", s, "\"">>
dumpsDict(d) ==
  <<"{">> \o Quote("url") \o <<":">> \o Quote(d.url) \o <<",">>
          \o Quote("content") \o <<":">> \o Quote(d.content) \o <<"}">>
RECURSIVE dumpsItems(_)
dumpsItems(l) ==
  IF l = <<>> THEN <<>>
  ELSE IF Len(l) = 1 THEN dumpsDict(l[1])
  ELSE dumpsDict(l[1]) \o <<",">> \o dumpsItems(Tail(l))
dumps(l) == <<"[">> \o dumpsItems(l) \o <<"]">>

(* ---------------------------- messages --------------------------------- *)
HumanMessage(text) == [type |-> "human", content |-> text]
AIMessage(text, calls) == [type |-> "ai", content |-> text, tool_calls |-> calls]
ToolMessage(text, nm, cid) ==
  [type |-> "tool", content |-> text, name |-> nm, tool_call_id |-> cid]
ToolCall(nm, args, cid) == [name |-> nm, args |-> args, id |-> cid]

\* the replies the language model may give; n, the id its reply is going to
\* get, makes the ids of its tool calls fresh
CallSeqs(n) ==
  { [i \in 1..Len(s) |-> ToolCall(s[i][1], s[i][2], Append(n, i))] :
      s \in SeqsUpTo(ToolNames \X ToolArgs, MaxCalls) }
LLMReplies(n, withTools) ==
  { AIMessage(c, calls) : c \in AIContents,
                          calls \in IF withTools THEN CallSeqs(n) ELSE { <<>> } }

(* ---------------------------- add_messages ----------------------------- *)
\* messages without an id get a fresh one (uuid4 in the library): the pair
\* of the stream call's number and a counter
FreshId(run, n) == <<run, n>>

RECURSIVE AssignIds(_, _, _)
AssignIds(right, run, n) ==
  IF right = <<>> THEN <<>>
  ELSE <<IF HasAttr(right[1], "id") THEN right[1]
         ELSE right[1] @@ [id |-> FreshId(run, n)]>>
         \o AssignIds(Tail(right), run, IF HasAttr(right[1], "id") THEN n ELSE n + 1)

RECURSIVE FreshCount(_)
FreshCount(right) ==
  IF right = <<>> THEN 0
  ELSE (IF HasAttr(right[1], "id") THEN 0 ELSE 1) + FreshCount(Tail(right))

\* one message merged into the list: replaced in place when its id is
\* already there, appended otherwise
MergeOne(left, m) ==
  IF \E i \in 1..Len(left) : left[i].id = m.id
  THEN [i \in 1..Len(left) |-> IF left[i].id = m.id THEN m ELSE left[i]]
  ELSE Append(left, m)

RECURSIVE MergeAll(_, _)
MergeAll(left, right) ==
  IF right = <<>> THEN left ELSE MergeAll(MergeOne(left, right[1]), Tail(right))

\* the channel without its reducer: the update overwrites the list
add_messages_overwrite(left, right, run, n) == AssignIds(right, run, n)

add_messages(left, right, run, n) == MergeAll(left, AssignIds(right, run, n))

(* ---------------------------- chatbot ---------------------------------- *)
\* the model is handed the last message only
chatbot_arg_last(state) == <<Last(state.messages)>>

\* the argument of llm.invoke / llm_with_tools.invoke
chatbot_arg(state) == state.messages
\* the update the node returns, reply being what the model answered
chatbot(state, reply) == [messages |-> <<reply>>]

(* ---------------------------- BasicToolNode ---------------------------- *)
tools_by_name == {RegisteredTool}

\* the for loop over message.tool_calls; outcomes[i] is what the i-th tool
\* invocation does
RECURSIVE ToolLoop(_, _, _, _)
ToolLoop(calls, outcomes, outputs, log) ==
  IF calls = <<>>
  THEN [raised |-> "none", messages |-> outputs, invoked |-> log]
  ELSE LET tool_call == Head(calls)
       IN  IF tool_call.name \notin tools_by_name
           THEN [raised |-> "KeyError", messages |-> <<>>, invoked |-> log]
           ELSE LET outcome == Head(outcomes)
                    tool_result == outcome.value
                    log2 == Append(log, [name |-> tool_call.name, args |-> tool_call.args,
                                         id |-> tool_call.id, outcome |-> outcome])
                IN  IF outcome.raises
                    THEN [raised |-> "ToolError", messages |-> <<>>, invoked |-> log2]
                    ELSE ToolLoop(Tail(calls), Tail(outcomes),
                                  Append(outputs,
                                         ToolMessage(dumps(tool_result), tool_call.name,
                                                     tool_call.id)),
                                  log2)

dict_get(d, key, default) == IF key \in DOMAIN d THEN d[key] ELSE default

Reverse(l) == [i \in 1..Len(l) |-> l[Len(l) + 1 - i]]

\* the outputs are collected in reverse order
BasicToolNode_call_reversed(inputs, outcomes) ==
  LET messages_ == dict_get(inputs, "messages", <<>>)
  IN  IF messages_ = <<>>
      THEN [raised |-> "ValueError", messages |-> <<>>, invoked |-> <<>>]
      ELSE LET message == Last(messages_)
           IN  IF ~HasAttr(message, "tool_calls")
               THEN [raised |-> "AttributeError", messages |-> <<>>, invoked |-> <<>>]
               ELSE LET r == ToolLoop(message.tool_calls, outcomes, <<>>, <<>>)
                    IN  [r EXCEPT !.messages = Reverse(r.messages)]

\* a failing call is answered with a tool message that reports the error, in
\* place of the exception
BasicToolNode_call_reports(inputs, outcomes) ==
  LET messages_ == dict_get(inputs, "messages", <<>>)
  IN  IF messages_ = <<>>
      THEN [raised |-> "ValueError", messages |-> <<>>, invoked |-> <<>>]
      ELSE LET message == Last(messages_)
           IN  IF ~HasAttr(message, "tool_calls")
               THEN [raised |-> "AttributeError", messages |-> <<>>, invoked |-> <<>>]
               ELSE LET calls == message.tool_calls
                        r == ToolLoop(calls, outcomes, <<>>, <<>>)
                        n == IF r.raised = "KeyError" THEN Len(r.invoked) + 1
                             ELSE Len(r.invoked)
                    IN  [raised |-> "none",
                         messages |->
                           [i \in 1..n |->
                              ToolMessage(IF i <= Len(r.invoked) /\ ~r.invoked[i].outcome.raises
                                          THEN dumps(r.invoked[i].outcome.value)
                                          ELSE <<"error">>,
                                          calls[i].name, calls[i].id)],
                         invoked |-> r.invoked]

\* the tool calls are taken from the first message of the input
BasicToolNode_call_first(inputs, outcomes) ==
  LET messages_ == dict_get(inputs, "messages", <<>>)
  IN  IF messages_ = <<>>
      THEN [raised |-> "ValueError", messages |-> <<>>, invoked |-> <<>>]
      ELSE LET message == Head(messages_)
           IN  IF ~HasAttr(message, "tool_calls")
               THEN [raised |-> "AttributeError", messages |-> <<>>, invoked |-> <<>>]
               ELSE ToolLoop(message.tool_calls, outcomes, <<>>, <<>>)

\* only the first tool call of the message is executed
BasicToolNode_call_head(inputs, outcomes) ==
  LET messages_ == dict_get(inputs, "messages", <<>>)
  IN  IF messages_ = <<>>
      THEN [raised |-> "ValueError", messages |-> <<>>, invoked |-> <<>>]
      ELSE LET message == Last(messages_)
           IN  IF ~HasAttr(message, "tool_calls")
               THEN [raised |-> "AttributeError", messages |-> <<>>, invoked |-> <<>>]
               ELSE ToolLoop(IF message.tool_calls = <<>> THEN <<>>
                             ELSE <<Head(message.tool_calls)>>,
                             outcomes, <<>>, <<>>)

\* an input without messages yields an empty update in place of the ValueError
BasicToolNode_call_lenient(inputs, outcomes) ==
  LET messages_ == dict_get(inputs, "messages", <<>>)
  IN  IF messages_ = <<>>
      THEN [raised |-> "none", messages |-> <<>>, invoked |-> <<>>]
      ELSE LET message == Last(messages_)
           IN  IF ~HasAttr(message, "tool_calls")
               THEN [raised |-> "AttributeError", messages |-> <<>>, invoked |-> <<>>]
               ELSE ToolLoop(message.tool_calls, outcomes, <<>>, <<>>)

BasicToolNode_call(inputs, outcomes) ==
  LET messages_ == dict_get(inputs, "messages", <<>>)
  IN  IF messages_ = <<>>
      THEN [raised |-> "ValueError", messages |-> <<>>, invoked |-> <<>>]
      ELSE LET message == Last(messages_)
           IN  IF ~HasAttr(message, "tool_calls")
               THEN [raised |-> "AttributeError", messages |-> <<>>, invoked |-> <<>>]
               ELSE ToolLoop(message.tool_calls, outcomes, <<>>, <<>>)

(* ---------------------------- route_tools ------------------------------ *)
\* the length test is left out: any message with a tool_calls attribute routes
\* to the tools
route_tools_no_len(state) ==
  IF state.py = "list"
  THEN IF state.v = <<>> THEN "IndexError"
       ELSE IF HasAttr(Last(state.v), "tool_calls") THEN "tools" ELSE "__end__"
  ELSE LET messages_ == dict_get(state.v, "messages", <<>>)
       IN  IF messages_ = <<>> THEN "ValueError"
           ELSE IF HasAttr(Last(messages_), "tool_calls") THEN "tools" ELSE "__end__"

\* state is [py |-> "list", v |-> a sequence] or [py |-> "dict", v |-> a record]
route_tools(state) ==
  IF state.py = "list"
  THEN IF state.v = <<>> THEN "IndexError"
       ELSE IF HasAttr(Last(state.v), "tool_calls") /\ Len(Last(state.v).tool_calls) > 0
            THEN "tools" ELSE "__end__"
  ELSE LET messages_ == dict_get(state.v, "messages", <<>>)
       IN  IF messages_ = <<>> THEN "ValueError"
           ELSE IF HasAttr(Last(messages_), "tool_calls")
                   /\ Len(Last(messages_).tool_calls) > 0
                THEN "tools" ELSE "__end__"

State(msgs) == [messages |-> msgs]
PyDict(d) == [py |-> "dict", v |-> d]
PyList(l) == [py |-> "list", v |-> l]
PyStr(t) == [py |-> "str", v |-> t]
\* a == b on two Python values: values of different types are never equal
PyEq(a, b) == a.py = b.py /\ a.v = b.v

(* ---------------------------- graph wiring ----------------------------- *)
\* The human-in-the-loop graph uses the library's ToolNode and
\* tools_condition, which the source introduces as the replacements of
\* BasicToolNode and route_tools; they are modelled by the same operators.
EntryPoint == "chatbot"
\* the edge out of the tools node leads to the end
AfterTools_end == "__end__"
AfterTools == "chatbot"
\* a reply without tool calls leads back to chatbot in place of END
AfterChatbot_never_ends(p, msgs) ==
  IF p = "basic" THEN "__end__"
  ELSE IF route_tools(PyDict(State(msgs))) = "__end__" THEN "chatbot"
       ELSE route_tools(PyDict(State(msgs)))
\* the edge out of chatbot leads to tools whatever the reply holds
AfterChatbot_always_tools(p, msgs) ==
  IF p = "basic" THEN "__end__" ELSE "tools"
\* the basic graph has the edge chatbot -> chatbot in place of chatbot -> END
AfterChatbot_again(p, msgs) ==
  IF p = "basic" THEN "chatbot" ELSE route_tools(PyDict(State(msgs)))
AfterChatbot(p, msgs) ==
  IF p = "basic" THEN "__end__" ELSE route_tools(PyDict(State(msgs)))
\* every graph is compiled with the checkpointer
HasCheckpointer_always(p) == TRUE
HasCheckpointer(p) == p = "hitl"
\* the graph is compiled without interrupt_before
InterruptBefore_none(p) == {}
InterruptBefore(p) == IF p = "hitl" THEN {"tools"} ELSE {}
BindsTools(p) == p # "basic"

(* ---------------------------- state ------------------------------------ *)
(* ------------------- graph.stream and the driving loops ---------------- *)
\* the human-in-the-loop cells pass stream_mode = "values"; the chat loops
\* stream with the default mode, which yields the update of each node
StreamMode(p) == IF p = "hitl" THEN "values" ELSE "updates"
\* what the stream yields before the first step: in "values" mode the state
\* the run starts with
FirstEvents(p, msgs) ==
  IF StreamMode(p) = "values" THEN << PyDict(State(msgs)) >> ELSE << >>
\* what the stream yields after a node has run
StepEvent(p, node, update, msgs) ==
  IF StreamMode(p) = "values" THEN PyDict(State(msgs)) ELSE PyDict(node :> update)
\* the one value of an {node: update} event
DictValue(d) == d[CHOOSE k \in DOMAIN d : TRUE]
IsBaseMessage(m) == HasAttr(m, "type") /\ m.type \in {"human", "ai", "tool"}

\* Part 1: for event in stream: for value in event.values(): print(value["messages"])
Part1Loop(events) ==
  [i \in 1..Len(events) |-> DictValue(events[i].v).messages]

\* Part 2: prints the content of the last message of every update
RECURSIVE Part2Loop(_)
Part2Loop(events) ==
  IF events = <<>> THEN <<>>
  ELSE LET value == DictValue(Head(events).v)
       IN  (IF IsBaseMessage(Last(value.messages))
            THEN << Last(value.messages).content >> ELSE << >>)
             \o Part2Loop(Tail(events))

\* the loop over the initial stream: if "messages" in event: pretty_print
RECURSIVE InitialLoop(_)
InitialLoop(events) ==
  IF events = <<>> THEN <<>>
  ELSE LET event == Head(events)
       IN  (IF HasAttr(event.v, "messages") THEN << Last(event.v.messages) >> ELSE << >>)
             \o InitialLoop(Tail(events))

\* x in events, events being the generator: the values it yields from here on
\* are compared with x until one is equal; the result is the number of
\* values this consumes, and whether one was equal
RECURSIVE InGenerator(_, _, _)
InGenerator(x, rest, n) ==
  IF rest = <<>> THEN [found |-> FALSE, consumed |-> n]
  ELSE IF PyEq(Head(rest), x) THEN [found |-> TRUE, consumed |-> n + 1]
       ELSE InGenerator(x, Tail(rest), n + 1)

\* the loop over the resumed stream: if "messages" in events: pretty_print,
\* the test being made on the generator, not on the event
RECURSIVE ResumedLoop(_)
ResumedLoop(events) ==
  IF events = <<>> THEN <<>>
  ELSE LET event == Head(events)
           test == InGenerator(PyStr("messages"), Tail(events), 0)
       IN  IF test.found
           THEN << Last(event.v.messages) >>
                  \o ResumedLoop(SubSeq(events, test.consumed + 2, Len(events)))
           ELSE << >>

\* what the loop that drives the stream has printed once the stream has
\* yielded events; r is the number of resumes made
LoopOutput(p, r, events) ==
  CASE p = "basic" -> Part1Loop(events)
    [] p = "tools" -> Part2Loop(events)
    [] p = "hitl" -> IF r = 0 THEN InitialLoop(events) ELSE ResumedLoop(events)

VARIABLES
  part,         \* which of the three graphs this session builds
  pc,           \* where the driving cell is
  messages,     \* the messages channel of the graph state
  next,         \* the node the graph runs next ("none" before the first stream)
  saved,        \* the checkpoint of thread "1": [messages, next]
  nextId,       \* the counter of the fresh message ids of this stream call
  rounds,       \* chatbot steps taken since the last input
  resumes,      \* graph.stream(None, config) calls made
  n_streams,    \* the calls of graph.stream made with an input
  last_input,   \* the input of the last of them
  llm_input,    \* the argument of the last llm.invoke
  invoked,      \* the tool invocations made on this thread or run
  responses,    \* what the model and the tools answered on this thread or run
  trace,        \* the steps taken on this thread or run
  streamed,     \* the events the current stream call has yielded
  printed,      \* what the cell driving it has printed
  user_input,   \* what input() returned last
  fn_in,        \* the argument of a function applied on its own
  fn_out        \* its result

vars == <<part, pc, messages, next, saved, nextId, rounds, resumes, n_streams,
          last_input, llm_input, invoked, responses, trace, streamed, printed,
          user_input, fn_in, fn_out>>

NoCheckpoint == [messages |-> <<>>, next |-> "none"]
NoCall == [fn |-> "none"]
NoResult == [called |-> FALSE]

Init ==
  /\ part \in Parts
  /\ pc = IF part = "hitl" THEN "start" ELSE "input"
  /\ messages = <<>>
  /\ next = "none"
  /\ saved = NoCheckpoint
  /\ nextId = 0
  /\ rounds = 0
  /\ resumes = 0
  /\ n_streams = 0
  /\ last_input = State(<<>>)
  /\ llm_input = <<>>
  /\ invoked = <<>>
  /\ responses = <<>>
  /\ trace = <<>>
  /\ streamed = <<>>
  /\ printed = <<>>
  /\ user_input = <<>>
  /\ fn_in = NoCall
  /\ fn_out = NoResult

\* where the driving cell goes when the stream it consumes is exhausted
AfterStream(p, r) ==
  IF p = "hitl" THEN (IF r < MaxResumes THEN "ended" ELSE "done") ELSE "input"

\* graph.stream(input): the input is merged into the checkpointed state, or
\* into an empty one when the graph has no checkpointer
StartRun(input) ==
  LET base == IF HasCheckpointer(part) THEN saved.messages ELSE <<>>
      msgs == add_messages(base, input.messages, n_streams + 1, 0)
  IN  /\ messages' = msgs
      /\ next' = EntryPoint
      /\ nextId' = FreshCount(input.messages)
      /\ saved' = IF HasCheckpointer(part) THEN [messages |-> msgs, next |-> EntryPoint]
                  ELSE saved
      /\ n_streams' = n_streams + 1
      /\ last_input' = input
      /\ rounds' = 0
      /\ invoked' = <<>>
      /\ responses' = <<>>
      /\ trace' = <<>>
      /\ streamed' = FirstEvents(part, msgs)
      /\ printed' = LoopOutput(part, 0, FirstEvents(part, msgs))
      /\ pc' = "stream"

\* the chat read-loop reads a quit word and breaks
LoopQuit ==
  /\ part \in {"basic", "tools"}
  /\ pc = "input"
  /\ \E text \in UserInputs :
       /\ IsQuit(text)
       /\ user_input' = text
       /\ pc' = "done"
  /\ streamed' = <<>>
  /\ printed' = IF part = "tools" THEN << <<"Goodbye!">> >> ELSE << >>
  /\ UNCHANGED <<part, messages, next, saved, nextId, rounds, resumes, n_streams,
                 last_input, llm_input, invoked, responses, trace, fn_in, fn_out>>

\* the chat read-loop reads anything else and streams the graph on it
LoopInvoke ==
  /\ part \in {"basic", "tools"}
  /\ pc = "input"
  /\ n_streams < MaxInputs
  /\ \E text \in UserInputs :
       /\ ~IsQuit(text)
       /\ user_input' = text
       /\ StartRun(State(<<HumanMessage(text)>>))
  /\ UNCHANGED <<part, resumes, llm_input, fn_in, fn_out>>

\* the human-in-the-loop notebook streams its one user_input
HitlStream ==
  /\ part = "hitl"
  /\ pc = "start"
  /\ user_input' = HitlInput
  /\ StartRun(State(<<HumanMessage(HitlInput)>>))
  /\ UNCHANGED <<part, resumes, llm_input, fn_in, fn_out>>

\* one execution of the chatbot node, the edge out of it, and the end of the
\* stream when the graph stops there
ChatbotStep ==
  /\ pc = "stream"
  /\ next = "chatbot"
  /\ rounds < MaxRounds
  /\ \E reply \in LLMReplies(FreshId(n_streams, nextId), BindsTools(part)) :
     \E update \in { chatbot(State(messages), reply) } :
     \E msgs \in { add_messages(messages, update.messages, n_streams, nextId) } :
     \E nxt \in { AfterChatbot(part, msgs) } :
       LET state == State(messages)
           stops == nxt \in InterruptBefore(part)
       IN  /\ llm_input' = chatbot_arg(state)
           /\ messages' = msgs
           /\ next' = nxt
           /\ nextId' = nextId + FreshCount(update.messages)
           /\ saved' = IF HasCheckpointer(part) THEN [messages |-> msgs, next |-> nxt]
                       ELSE saved
           /\ responses' = Append(responses, [node |-> "chatbot", reply |-> reply,
                                               outcomes |-> <<>>])
           /\ trace' = IF stops THEN trace \o <<"chatbot", "interrupt">>
                       ELSE Append(trace, "chatbot")
           /\ streamed' = Append(streamed, StepEvent(part, "chatbot", update, msgs))
           /\ printed' = LoopOutput(part, resumes,
                                    Append(streamed,
                                           StepEvent(part, "chatbot", update, msgs)))
           /\ pc' = IF stops \/ nxt = "__end__" THEN AfterStream(part, resumes)
                    ELSE "stream"
  /\ rounds' = rounds + 1
  /\ UNCHANGED <<part, resumes, n_streams, last_input, invoked, user_input, fn_in, fn_out>>

\* one execution of the tools node and the edge out of it; an exception of
\* the node ends the driving cell
ToolsStep ==
  /\ pc = "stream"
  /\ next = "tools"
  /\ \E outcomes \in [1..Len(Last(messages).tool_calls) -> ToolOutcomes] :
     \E r \in { BasicToolNode_call(State(messages), outcomes) } :
     \E msgs \in { add_messages(messages, r.messages, n_streams, nextId) } :
       LET used == [i \in 1..Len(r.invoked) |-> r.invoked[i].outcome]
       IN  /\ invoked' = invoked \o r.invoked
           /\ responses' = Append(responses, [node |-> "tools", reply |-> <<>>,
                                               outcomes |-> used])
           /\ IF r.raised = "none"
              THEN /\ messages' = msgs
                   /\ next' = AfterTools
                   /\ nextId' = nextId + FreshCount(r.messages)
                   /\ saved' = IF HasCheckpointer(part)
                               THEN [messages |-> msgs, next |-> AfterTools] ELSE saved
                   /\ trace' = Append(trace, "tools")
                   /\ streamed' = Append(streamed,
                                         StepEvent(part, "tools", State(r.messages), msgs))
                   /\ printed' = LoopOutput(part, resumes,
                                            Append(streamed,
                                                   StepEvent(part, "tools",
                                                             State(r.messages), msgs)))
                   /\ pc' = IF AfterTools = "__end__" THEN AfterStream(part, resumes)
                            ELSE "stream"
              ELSE /\ trace' = Append(trace, "error")
                   /\ pc' = "error"
                   /\ UNCHANGED <<messages, next, nextId, saved, streamed, printed>>
  /\ UNCHANGED <<part, rounds, resumes, n_streams, last_input, llm_input, user_input,
                 fn_in, fn_out>>

\* None is taken for an empty user message
ResumeFrom_blank(cp) ==
  [messages |-> Append(cp.messages, HumanMessage(<<>>) @@ [id |-> FreshId(0, 0)]),
   next |-> cp.next]

\* None is taken for a new input: the graph starts over at its entry point
ResumeFrom_restart(cp) == [messages |-> cp.messages, next |-> EntryPoint]

\* the state a stream of None starts from: the checkpoint, nothing added
ResumeFrom(cp) == [messages |-> cp.messages, next |-> cp.next]

\* graph.stream(None, config): the run continues from the checkpoint
Resume ==
  /\ part = "hitl"
  /\ pc = "ended"
  /\ resumes < MaxResumes
  /\ resumes' = resumes + 1
  /\ messages' = ResumeFrom(saved).messages
  /\ next' = ResumeFrom(saved).next
  /\ trace' = Append(trace, "resume")
  /\ streamed' = <<>>
  /\ printed' = <<>>
  /\ pc' = IF ResumeFrom(saved).next = "__end__" THEN AfterStream(part, resumes + 1)
           ELSE "stream"
  /\ UNCHANGED <<part, saved, nextId, rounds, n_streams, last_input, llm_input,
                 invoked, responses, user_input, fn_in, fn_out>>

Next ==
  \/ LoopQuit
  \/ LoopInvoke
  \/ HitlStream
  \/ ChatbotStep
  \/ ToolsStep
  \/ Resume

Spec == Init /\ [][Next]_vars

\* every model invocation and every tool invocation returns (or raises): a
\* pending chatbot or tools step is eventually executed
SpecFair == Spec /\ WF_vars(ChatbotStep) /\ WF_vars(ToolsStep)

(* ------------------ route_tools applied on its own --------------------- *)
\* the sample tool calls also differ in their args
SampleArgs == {"LangGraph", "memory"}
SampleCallKinds ==
  (ToolNames \X ToolArgs) \cup ({RegisteredTool} \X SampleArgs)
SampleCalls ==
  { [i \in 1..Len(s) |-> ToolCall(s[i][1], s[i][2], Append(FreshId(0, 0), i))] :
      s \in SeqsUpTo(SampleCallKinds, MaxCalls) }
SampleMessages ==
  { HumanMessage(HitlInput) @@ [id |-> FreshId(0, 0)],
    ToolMessage(dumps(<<>>), RegisteredTool, <<0, 0, 1>>) @@ [id |-> FreshId(0, 0)] }
    \cup { AIMessage(<<"answer">>, calls) @@ [id |-> FreshId(0, 0)] : calls \in SampleCalls }
\* the messages before the last one are drawn from a smaller sample
SampleEarlier ==
  { m \in SampleMessages :
      m.type = "ai" =>
        \A i \in 1..Len(m.tool_calls) :
          m.tool_calls[i].name = RegisteredTool /\ m.tool_calls[i].args \in ToolArgs }
SampleLists ==
  { <<>> } \cup { Append(pre, m) : pre \in SeqsUpTo(SampleEarlier, MaxListLen - 1),
                                    m \in SampleMessages }

RouteInputs ==
  { PyList(l) : l \in SampleLists }
    \cup { PyDict(State(l)) : l \in SampleLists }
    \cup { PyDict([other |-> <<>>]) }

PureInit(inputs) ==
  /\ part = "tools"
  /\ pc = "call"
  /\ messages = <<>>
  /\ next = "none"
  /\ saved = NoCheckpoint
  /\ nextId = 0
  /\ rounds = 0
  /\ resumes = 0
  /\ n_streams = 0
  /\ last_input = State(<<>>)
  /\ llm_input = <<>>
  /\ invoked = <<>>
  /\ responses = <<>>
  /\ trace = <<>>
  /\ streamed = <<>>
  /\ printed = <<>>
  /\ user_input = <<>>
  /\ fn_in \in inputs
  /\ fn_out = NoResult

PureFrame ==
  UNCHANGED <<part, messages, next, saved, nextId, rounds, resumes, n_streams,
              last_input, llm_input, invoked, responses, trace, streamed, printed,
              user_input, fn_in>>

InitRoute == PureInit({ [fn |-> "route_tools", state |-> st] : st \in RouteInputs })

RouteCall ==
  /\ pc = "call"
  /\ fn_in.fn = "route_tools"
  /\ fn_out' = [called |-> TRUE, value |-> route_tools(fn_in.state)]
  /\ pc' = "returned"
  /\ PureFrame

SpecRoute == InitRoute /\ [][RouteCall]_vars

(* ------------- BasicToolNode.__call__ applied on its own --------------- *)
ToolNodeInputs ==
  { State(l) : l \in SampleLists } \cup { [other |-> <<>>] }

InitToolNode ==
  PureInit({ [fn |-> "BasicToolNode", inputs |-> d, outcomes |-> oc] :
               d \in ToolNodeInputs, oc \in [1..MaxCalls -> ToolOutcomes] })

ToolNodeCall ==
  /\ pc = "call"
  /\ fn_in.fn = "BasicToolNode"
  /\ fn_out' = [called |-> TRUE, value |-> BasicToolNode_call(fn_in.inputs, fn_in.outcomes)]
  /\ pc' = "returned"
  /\ PureFrame

SpecToolNode == InitToolNode /\ [][ToolNodeCall]_vars

(* ============================ properties =============================== *)
LoopParts == {"basic", "tools"}
ToolParts == {"tools", "hitl"}

\* C1: the message list is append-only: for every step of the graph (chatbot
\* or tools), the list before the step is a prefix of the list after it.
C1_AppendOnly == [][pc = "stream" => IsPrefix(messages, messages')]_vars

C1_Witness ==
  /\ Len(messages) >= 4
  /\ \E i \in 1..Len(trace) : trace[i] = "tools"
  /\ trace[Len(trace)] = "chatbot"

\* the messages a state handed to route_tools holds
StateMessages(state) ==
  IF state.py = "list" THEN state.v ELSE dict_get(state.v, "messages", <<>>)

\* C2: whenever the state has a last message, route_tools returns "tools" if
\* and only if that message has a tool_calls attribute holding at least one
\* tool call, and "__end__" in every other case.
C2_RouteTools ==
  (fn_out.called /\ fn_in.fn = "route_tools" /\ StateMessages(fn_in.state) # <<>>) =>
    LET m == Last(StateMessages(fn_in.state))
        requested == HasAttr(m, "tool_calls") /\ Len(m.tool_calls) >= 1
    IN  /\ requested => fn_out.value = "tools"
        /\ ~requested => fn_out.value = "__end__"

C2_Witness ==
  /\ fn_out.called
  /\ fn_in.fn = "route_tools"
  /\ fn_in.state.py = "dict"
  /\ fn_out.value = "__end__"
  /\ HasAttr(Last(StateMessages(fn_in.state)), "tool_calls")

\* C3: each execution of the chatbot step hands the whole current message
\* list to the language model and appends exactly one message, the model's
\* reply, to the end of the list.
C3_ChatbotStep ==
  [][(pc = "stream" /\ next = "chatbot") =>
       /\ llm_input' = messages
       /\ Len(messages') = Len(messages) + 1
       /\ SubSeq(messages', 1, Len(messages)) = messages
       /\ LET reply == responses'[Len(responses')].reply
              m == messages'[Len(messages')]
          IN  /\ m.type = "ai"
              /\ m.content = reply.content
              /\ m.tool_calls = reply.tool_calls]_vars

C3_Witness ==
  /\ rounds >= 2
  /\ Len(llm_input) >= 3
  /\ Last(messages).type = "ai"

\* C4: when the last message of the input holds tool calls c1..cn and
\* BasicToolNode.__call__ returns, it returns exactly n tool-response
\* messages in the order of the calls, the i-th carrying the name and the id
\* of the i-th call and the serialized result of that call.
C4_ToolResponses ==
  (/\ fn_out.called
   /\ fn_in.fn = "BasicToolNode"
   /\ dict_get(fn_in.inputs, "messages", <<>>) # <<>>
   /\ HasAttr(Last(dict_get(fn_in.inputs, "messages", <<>>)), "tool_calls")
   /\ fn_out.value.raised = "none") =>
    LET calls == Last(fn_in.inputs.messages).tool_calls
        out == fn_out.value.messages
    IN  /\ Len(out) = Len(calls)
        /\ \A i \in 1..Len(calls) :
             /\ out[i].type = "tool"
             /\ out[i].name = calls[i].name
             /\ out[i].tool_call_id = calls[i].id
             /\ out[i].content = dumps(fn_in.outcomes[i].value)

C4_Witness ==
  /\ fn_out.called
  /\ fn_in.fn = "BasicToolNode"
  /\ fn_out.value.raised = "none"
  /\ Len(fn_out.value.messages) = 2
  /\ fn_out.value.messages[1].content # fn_out.value.messages[2].content

\* C5: in the tool-enabled graphs every completed tools step is followed by
\* a chatbot step: the run never ends directly after the tools step and never
\* runs the tools step twice in a row.
C5_ToolsThenChatbot ==
  part \in ToolParts =>
    \A i \in 1..Len(trace) :
      trace[i] = "tools" =>
        IF i < Len(trace) THEN trace[i + 1] = "chatbot"
        ELSE pc = "stream" /\ next = "chatbot"

C5_Witness ==
  /\ part \in ToolParts
  /\ \E i \in 1..Len(trace) : trace[i] = "tools" /\ i < Len(trace)
  /\ pc \in {"input", "done"}

\* C6: in the graph compiled with interrupt_before = ["tools"] the tools step
\* never executes unless the run has first paused before it: a chatbot reply
\* that requests a tool stops the run with the pending step 'tools', the
\* tool-calling assistant message last in the saved state, and none of its
\* calls invoked.
C6_InterruptBeforeTools ==
  part = "hitl" =>
    /\ \A i \in 1..Len(trace) :
         trace[i] \in {"tools", "error"} =>
           i >= 3 /\ trace[i - 1] = "resume" /\ trace[i - 2] = "interrupt"
    /\ (trace # <<>> /\ Last(trace) = "chatbot") => Last(messages).tool_calls = <<>>
    /\ (trace # <<>> /\ Last(trace) = "interrupt") =>
         /\ pc \in {"ended", "done"}
         /\ next = "tools"
         /\ saved.next = "tools"
         /\ saved.messages = messages
         /\ Last(saved.messages).type = "ai"
         /\ Len(Last(saved.messages).tool_calls) >= 1
         /\ \A c \in 1..Len(Last(saved.messages).tool_calls) :
              \A j \in 1..Len(invoked) :
                invoked[j].id # Last(saved.messages).tool_calls[c].id

C6_Witness ==
  /\ part = "hitl"
  /\ pc = "ended"
  /\ trace = <<"chatbot", "interrupt">>
  /\ Len(Last(saved.messages).tool_calls) = 2

\* C7: resuming an interrupted run by streaming None adds nothing to the
\* state: the message list at the resumption is the one saved at the
\* interrupt, and the first step executed after it is the tools step.
C7_ResumeAddsNothing ==
  [][part = "hitl" =>
       /\ (resumes' # resumes /\ trace # <<>> /\ Last(trace) = "interrupt") =>
            /\ messages' = saved.messages
            /\ messages' = messages
            /\ saved' = saved
            /\ next' = "tools"
            /\ pc' = "stream"
       /\ (Len(trace) >= 2 /\ trace[Len(trace)] = "resume"
           /\ trace[Len(trace) - 1] = "interrupt" /\ trace' # trace) =>
            trace' \in {Append(trace, "tools"), Append(trace, "error")}]_vars

C7_Witness ==
  /\ part = "hitl"
  /\ Len(trace) >= 4
  /\ trace[2] = "interrupt"
  /\ trace[3] = "resume"
  /\ trace[4] = "tools"

\* the run of the same graph compiled without interrupt_before, fed the
\* responses resp in order
RECURSIVE RunUninterrupted(_, _, _, _, _, _)
RunUninterrupted(p, msgs, nxt, run, n, resp) ==
  IF nxt = "__end__" THEN [ended |-> TRUE, messages |-> msgs, rest |-> resp]
  ELSE IF resp = <<>> THEN [ended |-> FALSE, messages |-> msgs, rest |-> resp]
  ELSE LET r == Head(resp)
       IN  IF nxt = "chatbot" /\ r.node = "chatbot"
           THEN LET update == chatbot(State(msgs), r.reply)
                    msgs2 == add_messages(msgs, update.messages, run, n)
                IN  RunUninterrupted(p, msgs2, AfterChatbot(p, msgs2), run,
                                     n + FreshCount(update.messages), Tail(resp))
           ELSE IF nxt = "tools" /\ r.node = "tools"
           THEN LET t == BasicToolNode_call(State(msgs), r.outcomes)
                    msgs2 == add_messages(msgs, t.messages, run, n)
                IN  IF t.raised # "none"
                    THEN [ended |-> FALSE, messages |-> msgs, rest |-> resp]
                    ELSE RunUninterrupted(p, msgs2, AfterTools, run,
                                          n + FreshCount(t.messages), Tail(resp))
           ELSE [ended |-> FALSE, messages |-> msgs, rest |-> resp]

\* C8: a run interrupted before the tools step and resumed with None ends
\* with the message list the same graph without the interrupt ends with, for
\* the same user input and the same model and tool responses.
C8_ResumeEquivalent ==
  (/\ part = "hitl"
   /\ pc \in {"ended", "done"}
   /\ next = "__end__"
   /\ \E i \in 1..Len(trace) : trace[i] = "interrupt") =>
    LET r == RunUninterrupted(part, add_messages(<<>>, last_input.messages, 1, 0),
                              EntryPoint, 1, FreshCount(last_input.messages), responses)
    IN  /\ r.ended
        /\ r.rest = <<>>
        /\ r.messages = messages

C8_Witness ==
  /\ part = "hitl"
  /\ pc = "done"
  /\ next = "__end__"
  /\ trace = <<"chatbot", "interrupt", "resume", "tools", "chatbot">>
  /\ Len(messages) = 5

\* the words of the tip, and what typing one of them in any letter case is
ExitWords == { <<"q","u","i","t">>, <<"e","x","i","t">>, <<"q">> }
UpperMap ==
  [q |-> "Q", u |-> "U", i |-> "I", t |-> "T", e |-> "E", x |-> "X", h |-> "H", s |-> "S"]
CaseVariant(typed, word) ==
  /\ Len(typed) = Len(word)
  /\ \A i \in 1..Len(word) : typed[i] = word[i] \/ typed[i] = UpperMap[word[i]]
TypedExit(typed) == \E word \in ExitWords : CaseVariant(typed, word)

\* what C9 says of one step of the chat read-loop
LoopStepOk ==
  /\ pc = "input" =>
       IF TypedExit(user_input')
       THEN /\ pc' = "done"
            /\ n_streams' = n_streams
            /\ UNCHANGED <<messages, next, trace, llm_input, invoked>>
       ELSE /\ pc' = "stream"
            /\ n_streams' = n_streams + 1
            /\ last_input' = State(<<HumanMessage(user_input')>>)
            /\ Len(messages') = 1
            /\ messages'[1].type = "human"
            /\ messages'[1].content = user_input'
            /\ next' = "chatbot"
  /\ (n_streams' # n_streams) => (pc = "input")
  /\ (pc = "stream" /\ pc' \notin {"stream", "error"}) => (pc' = "input")

\* C9: the chat read-loop exits when the user types "quit", "exit" or "q" in
\* any letter case, without invoking the graph for that input; every other
\* input invokes the graph exactly once, with that input as a single user
\* message, after which the loop reads the next input.
C9_ChatLoop == [][(part \in LoopParts) => LoopStepOk]_vars

C9_Witness ==
  /\ part \in LoopParts
  /\ pc = "done"
  /\ user_input = <<"Q","u","I","T">>
  /\ n_streams = 2
  /\ last_input = State(<<HumanMessage(<<"q","u","i","t","s">>)>>)

\* C10 as stated: in the chat read-loop the messages of an earlier graph
\* invocation are part of the list the chatbot step receives in a later one.
C10_StateAcrossCalls ==
  (part \in LoopParts /\ n_streams >= 2 /\ rounds >= 1) =>
    \E i \in 1..Len(llm_input) : llm_input[i].id[1] < n_streams

\* C10 amended: the graphs of the chat read-loops are compiled without a
\* checkpointer, so the list the chatbot step receives holds only messages of
\* the current invocation, the first being its user message.
C10_FreshStatePerCall ==
  (part \in LoopParts /\ rounds >= 1) =>
    /\ \A i \in 1..Len(llm_input) : llm_input[i].id[1] = n_streams
    /\ llm_input[1].type = "human"
    /\ llm_input[1].content = last_input.messages[1].content

C10_Witness ==
  /\ part \in LoopParts
  /\ n_streams >= 2
  /\ rounds >= 2
  /\ Len(llm_input) >= 3

\* C11: in the basic graph (START -> chatbot -> END) every invocation
\* executes the chatbot step exactly once and then ends, the final state
\* holding the user message followed by exactly one assistant reply.
C11_BasicRunsOnce ==
  (part = "basic" /\ n_streams >= 1) =>
    IF pc = "stream"
    THEN trace = <<>> /\ next = "chatbot" /\ Len(messages) = 1
    ELSE /\ trace = <<"chatbot">>
         /\ next = "__end__"
         /\ Len(messages) = 2
         /\ messages[1].type = "human"
         /\ messages[1].content = last_input.messages[1].content
         /\ messages[2].type = "ai"
         /\ messages[2].content = responses[1].reply.content

C11_Witness ==
  /\ part = "basic"
  /\ pc = "input"
  /\ n_streams = 2
  /\ Len(messages) = 2

\* C12 as stated: route_tools raises ValueError whenever the input state
\* holds no messages, be it a dict whose "messages" key is missing or empty
\* or a bare list that is empty.
C12_NoMessagesValueError ==
  (fn_out.called /\ fn_in.fn = "route_tools" /\ StateMessages(fn_in.state) = <<>>) =>
    fn_out.value = "ValueError"

\* C13: BasicToolNode.__call__ raises ValueError, and invokes no tool, when
\* its input has no "messages" key or an empty message list.
C13_ToolNodeNoMessages ==
  (/\ fn_out.called
   /\ fn_in.fn = "BasicToolNode"
   /\ (~HasAttr(fn_in.inputs, "messages") \/ fn_in.inputs.messages = <<>>)) =>
    /\ fn_out.value.raised = "ValueError"
    /\ fn_out.value.invoked = <<>>
    /\ fn_out.value.messages = <<>>

C13_Witness ==
  /\ fn_out.called
  /\ fn_in.fn = "BasicToolNode"
  /\ ~HasAttr(fn_in.inputs, "messages")
  /\ fn_out.value.raised = "ValueError"

\* C14: a failure inside the tools step propagates and leaves the transcript
\* unchanged: when a tool call of the last message names an unregistered
\* tool, or a tool invocation raises, the step ends the run with the
\* exception and appends no tool-response message, not even for the calls
\* that succeeded before the failing one.
ToolsStepFails ==
  LET calls == Last(messages).tool_calls
      log == SubSeq(invoked', Len(invoked) + 1, Len(invoked'))
  IN  \/ \E i \in 1..Len(calls) : calls[i].name \notin tools_by_name
      \/ \E i \in 1..Len(log) : log[i].outcome.raises

C14_FailurePropagates ==
  [][(pc = "stream" /\ next = "tools" /\ ToolsStepFails) =>
       /\ pc' = "error"
       /\ messages' = messages
       /\ saved' = saved
       /\ next' = next
       /\ trace' = Append(trace, "error")]_vars

C14_Witness ==
  /\ pc = "error"
  /\ Len(invoked) = 2
  /\ ~invoked[1].outcome.raises
  /\ invoked[2].outcome.raises
  /\ Last(messages).type = "ai"
  /\ \A i \in 1..Len(messages) : messages[i].type # "tool"

\* C15: every run of a tool-enabled graph begins with the chatbot step; the
\* tools step executes only immediately after a chatbot step whose reply
\* holds at least one tool call; the run reaches the end only immediately
\* after a chatbot step whose reply holds no tool call.
IsStep(t) == t \in {"chatbot", "tools", "error"}
Steps == SelectSeq(trace, IsStep)

C15_StepOrder ==
  (part \in ToolParts /\ n_streams >= 1) =>
    /\ Len(Steps) = Len(responses)
    /\ Steps # <<>> => Steps[1] = "chatbot"
    /\ \A i \in 1..Len(Steps) :
         Steps[i] \in {"tools", "error"} =>
           /\ i > 1
           /\ Steps[i - 1] = "chatbot"
           /\ Len(responses[i - 1].reply.tool_calls) >= 1
    /\ (pc = "stream" /\ next = "tools") =>
         /\ Steps # <<>>
         /\ Last(Steps) = "chatbot"
         /\ Len(Last(responses).reply.tool_calls) >= 1
    /\ next = "__end__" =>
         /\ Steps # <<>>
         /\ Last(Steps) = "chatbot"
         /\ Last(responses).reply.tool_calls = <<>>
    /\ (pc = "stream" /\ Steps = <<>>) => next = "chatbot"

C15_Witness ==
  /\ part = "tools"
  /\ next = "__end__"
  /\ Steps = <<"chatbot", "tools", "chatbot">>
  /\ pc = "input"

\* C17: BasicToolNode.__call__ executes only the tool calls of the last
\* message of its input: the tools it invokes are, in list order, the tools
\* registered under the names of that message's calls, each invoked once with
\* the args of its call; the calls of earlier messages are not executed.
C17_LastMessageCalls ==
  (/\ fn_out.called
   /\ fn_in.fn = "BasicToolNode"
   /\ dict_get(fn_in.inputs, "messages", <<>>) # <<>>
   /\ HasAttr(Last(dict_get(fn_in.inputs, "messages", <<>>)), "tool_calls")) =>
    LET calls == Last(fn_in.inputs.messages).tool_calls
        log == fn_out.value.invoked
    IN  /\ Len(log) <= Len(calls)
        /\ \A i \in 1..Len(log) :
             /\ log[i].name = calls[i].name
             /\ log[i].name \in tools_by_name
             /\ log[i].args = calls[i].args
             /\ log[i].id = calls[i].id
             /\ log[i].outcome = fn_in.outcomes[i]
        /\ fn_out.value.raised = "none" => Len(log) = Len(calls)
        /\ Len(log) < Len(calls) =>
             \/ calls[Len(log) + 1].name \notin tools_by_name
             \/ (log # <<>> /\ Last(log).outcome.raises)

C17_Witness ==
  /\ fn_out.called
  /\ fn_in.fn = "BasicToolNode"
  /\ HasAttr(fn_in.inputs, "messages")
  /\ Len(fn_in.inputs.messages) = 2
  /\ fn_in.inputs.messages[1].type = "ai"
  /\ fn_in.inputs.messages[2].type = "ai"
  /\ Len(fn_in.inputs.messages[1].tool_calls) = 2
  /\ Len(fn_in.inputs.messages[2].tool_calls) = 1
  /\ fn_in.inputs.messages[1].tool_calls[1].args # fn_in.inputs.messages[2].tool_calls[1].args
  /\ fn_out.value.raised = "none"
  /\ Len(fn_out.value.invoked) = 1

\* C18: when a run of the tool-enabled graph without interrupt reaches the
\* end, every tool call of every assistant message of the list has exactly
\* one tool-response message with its tool_call_id, later in the list, and
\* the last message is an assistant reply with no tool calls.
ToolResponsesTo(cid) ==
  { j \in 1..Len(messages) :
      messages[j].type = "tool" /\ messages[j].tool_call_id = cid }

C18_CallsAnswered ==
  (part = "tools" /\ n_streams >= 1 /\ next = "__end__") =>
    /\ \A i \in 1..Len(messages) :
         messages[i].type = "ai" =>
           \A c \in 1..Len(messages[i].tool_calls) :
             /\ Cardinality(ToolResponsesTo(messages[i].tool_calls[c].id)) = 1
             /\ \A j \in ToolResponsesTo(messages[i].tool_calls[c].id) : j > i
    /\ Last(messages).type = "ai"
    /\ Last(messages).tool_calls = <<>>

C18_Witness ==
  /\ part = "tools"
  /\ next = "__end__"
  /\ pc = "input"
  /\ Len(messages) = 5
  /\ Len(messages[2].tool_calls) = 2
  /\ messages[3].type = "tool"
  /\ messages[4].type = "tool"

\* C16: a run of the tool-enabled graph eventually reaches the end if the
\* model eventually replies without tool calls and every model and tool
\* invocation returns; the graph puts no bound on the chatbot/tools round
\* trips: as long as every reply requests a tool the run does not reach the
\* end, however many rounds have passed.
StillRequesting ==
  \A i \in 1..Len(responses) :
    responses[i].node = "chatbot" => Len(responses[i].reply.tool_calls) >= 1

RoundsExhausted ==
  /\ rounds = MaxRounds
  /\ next = "chatbot"
  /\ StillRequesting

C16_Termination ==
  /\ []((part = "tools" /\ pc = "stream" /\ StillRequesting) => next # "__end__")
  /\ []((part = "tools" /\ n_streams >= 1 /\ StillRequesting /\ pc # "error") =>
          (pc = "stream" /\ next \in {"chatbot", "tools"}))
  /\ (part = "tools" /\ pc = "stream") ~>
       (next = "__end__" \/ pc = "error" \/ RoundsExhausted)

C16_Witness ==
  /\ part = "tools"
  /\ next = "__end__"
  /\ rounds = MaxRounds
  /\ \E i \in 1..Len(trace) : trace[i] = "tools"
  /\ ~StillRequesting

\* C19 as stated: both loops that drive the human-in-the-loop graph, the one
\* over the initial stream and the one over the resumed stream, print the
\* last message of every streamed state value that holds messages.
HoldsMessages(event) == HasAttr(event.v, "messages")

C19_LoopsPrintLast ==
  part = "hitl" =>
    printed = [i \in 1..Len(SelectSeq(streamed, HoldsMessages)) |->
                 Last(SelectSeq(streamed, HoldsMessages)[i].v.messages)]

====
